---- MODULE Spec2Model ----
(***************************************************************************)
(* A model of the TLSHX digest pipeline of src/src/tlshx.rs:               *)
(*   TlshxBuilder::new / update / build, Tlshx::hash / from_hash / diff.   *)
(*                                                                         *)
(* Arrays are functions over 0..n-1, Option<T> is a sequence of length 0   *)
(* (None) or 1 (Some), texts are sequences of ASCII codes.                 *)
(*                                                                         *)
(* The builder is generic over its profile <EFF_BUCKETS,                   *)
(* TLSH_CHECKSUM_LEN, CODE_SIZE, TLSH_STRING_LEN_REQ, MIN_DATA_LENGTH>;    *)
(* the model instantiates it with a small profile so that the histogram    *)
(* fills up, and build() succeeds, after a handful of bytes.               *)
(***************************************************************************)
EXTENDS Integers, Sequences, FiniteSets

VARIABLES a_bucket, slide_window, checksum, data_len,   \* TlshxBuilder fields
          fed,        \* history: every byte passed to update(), in order
          op,         \* the last operation performed
          result,     \* Option<Tlshx> returned by the last build()
          nbuild,     \* number of build() calls since the last update()
          pre,        \* history: op, builder and result just before the last build()
          text,       \* a digest text handed to from_str()
          edits,      \* number of edits applied to text
          parsed,     \* Option<Tlshx> returned by the last from_str()
          lhs, rhs, len_diff, acc   \* operands and accumulator trace of diff()

vars == <<a_bucket, slide_window, checksum, data_len, fed, op, result, nbuild,
          pre, text, edits, parsed, lhs, rhs, len_diff, acc>>

builderVars == <<a_bucket, slide_window, checksum, data_len, fed, result, nbuild,
                 pre>>
codecVars == <<text, edits, parsed>>
diffVars == <<lhs, rhs, len_diff, acc>>

(***************************************************************************)
(* Profile and program constants                                           *)
(***************************************************************************)
SLIDING_WND_SIZE == 5
RNG_SIZE == SLIDING_WND_SIZE

BUCKETS == 12
EFF_BUCKETS == 10
TLSH_CHECKSUM_LEN == 2
CODE_SIZE == 2
TLSH_STRING_LEN_REQ == 14
MIN_DATA_LENGTH == 4

(***************************************************************************)
(* Bounds of the exploration                                               *)
(***************************************************************************)
MaxLen == 6        \* total number of bytes fed to one builder
MaxChunk == 2      \* longest slice passed to one update() call
NumBytes == 2      \* number of distinct byte values fed
MaxBuilds == 2     \* consecutive build() calls explored

Byte == 0..255
None == <<>>
Some(x) == <<x>>

Min(a, b) == IF a < b THEN a ELSE b
Max(a, b) == IF a > b THEN a ELSE b

RECURSIVE Pow(_, _)
Pow(b, e) == IF e = 0 THEN 1 ELSE b * Pow(b, e - 1)

RECURSIVE SumTo(_, _)
\* f[0] + ... + f[n-1]
SumTo(f, n) == IF n = 0 THEN 0 ELSE f[n - 1] + SumTo(f, n - 1)

(***************************************************************************)
(* Collaborators of tlshx.rs that live in other modules of the crate       *)
(* (pearson, quantile, util, tlsh).                                        *)
(***************************************************************************)
Bit(x, i) == (x \div Pow(2, i)) % 2

\* u8 ^ u8
XorTable == [a \in Byte |-> [b \in Byte |->
               ((Bit(a, 0) + Bit(b, 0)) % 2)
             + ((Bit(a, 1) + Bit(b, 1)) % 2) * 2
             + ((Bit(a, 2) + Bit(b, 2)) % 2) * 4
             + ((Bit(a, 3) + Bit(b, 3)) % 2) * 8
             + ((Bit(a, 4) + Bit(b, 4)) % 2) * 16
             + ((Bit(a, 5) + Bit(b, 5)) % 2) * 32
             + ((Bit(a, 6) + Bit(b, 6)) % 2) * 64
             + ((Bit(a, 7) + Bit(b, 7)) % 2) * 128]]
Xor(a, b) == XorTable[a][b]

\* The fixed 256-entry substitution table: a permutation of the bytes.
V_TABLE == [x \in Byte |-> (x * (2 * x + 1) + 89) % 256]

\* pearson::b_mapping: the table composed over salt and three bytes.
b_mapping(salt, i, j, k) ==
    V_TABLE[Xor(V_TABLE[Xor(V_TABLE[Xor(salt, i)], j)], k)]

\* pearson::fast_b_mapping::<EFF_BUCKETS>: the same composition, as an index
\* into the effective buckets.
fast_b_mapping(salt, i, j, k) == b_mapping(salt, i, j, k) % EFF_BUCKETS

\* The value of rank r (1-based) of the sorted first EFF_BUCKETS counters.
RankValue(buckets, r) ==
    LET vals == {buckets[i] : i \in 0..(EFF_BUCKETS - 1)}
        ok == {v \in vals :
                 Cardinality({i \in 0..(EFF_BUCKETS - 1) : buckets[i] <= v}) >= r}
    IN CHOOSE v \in ok : \A w \in ok : v <= w

CeilDiv(a, b) == (a + b - 1) \div b

\* quantile::get_tertiles::<EFF_BUCKETS>: nearest-rank order statistics at one
\* quarter and three quarters of the effective buckets.
get_tertiles(buckets) ==
    <<RankValue(buckets, CeilDiv(EFF_BUCKETS, 4)),
      RankValue(buckets, CeilDiv(3 * EFF_BUCKETS, 4))>>

RECURSIVE LogClass(_, _)
\* the largest i with 1.5^i <= len, counted up from i
LogClass(len, i) ==
    IF Pow(3, i + 1) <= len * Pow(2, i + 1) THEN LogClass(len, i + 1) ELSE i

\* util::l_capturing: the logarithmic class of a length, as a u8.
l_capturing(len) == IF len = 0 THEN 0 ELSE LogClass(len, 0) % 256

\* util::swap_byte: the byte with its bit order reversed.
swap_byte(b) ==
      Bit(b, 0) * 128 + Bit(b, 1) * 64 + Bit(b, 2) * 32 + Bit(b, 3) * 16
    + Bit(b, 4) * 8 + Bit(b, 5) * 4 + Bit(b, 6) * 2 + Bit(b, 7)

(***************************************************************************)
(* TlshxBuilder                                                            *)
(***************************************************************************)
\* TlshxBuilder::new
new == [a_bucket |-> [i \in 0..(BUCKETS - 1) |-> 0],
        slide_window |-> [i \in 0..(SLIDING_WND_SIZE - 1) |-> 0],
        checksum |-> [i \in 0..(TLSH_CHECKSUM_LEN - 1) |-> 0],
        data_len |-> 0]

RECURSIVE checksum_loop(_, _, _, _)
\* for k in 0..TLSH_CHECKSUM_LEN { ... }, from index k on
checksum_loop(ck, k, cur, prev) ==
    IF k >= TLSH_CHECKSUM_LEN THEN ck
    ELSE LET v == IF k = 0
                  THEN fast_b_mapping(1, cur, prev, ck[k])
                  ELSE b_mapping(ck[k - 1], cur, prev, ck[k])
         IN checksum_loop([ck EXCEPT ![k] = v], k + 1, cur, prev)

\* self.a_bucket[usize::from(r)] += 1
bump(buckets, r) == [buckets EXCEPT ![r] = @ + 1]

\* bucket_step with the last increment left out.
bucket_step_five(buckets, w, j, j_1, j_2, j_3, j_4) ==
    LET b1 == bump(buckets, fast_b_mapping(49, w[j], w[j_1], w[j_2]))
        b2 == bump(b1, fast_b_mapping(12, w[j], w[j_1], w[j_3]))
        b3 == bump(b2, fast_b_mapping(178, w[j], w[j_2], w[j_3]))
        b4 == bump(b3, fast_b_mapping(166, w[j], w[j_2], w[j_4]))
        b5 == bump(b4, fast_b_mapping(84, w[j], w[j_1], w[j_4]))
    IN b5

\* The six bucket increments of one byte.
bucket_step(buckets, w, j, j_1, j_2, j_3, j_4) ==
    LET b1 == bump(buckets, fast_b_mapping(49, w[j], w[j_1], w[j_2]))
        b2 == bump(b1, fast_b_mapping(12, w[j], w[j_1], w[j_3]))
        b3 == bump(b2, fast_b_mapping(178, w[j], w[j_2], w[j_3]))
        b4 == bump(b3, fast_b_mapping(166, w[j], w[j_2], w[j_4]))
        b5 == bump(b4, fast_b_mapping(84, w[j], w[j_1], w[j_4]))
        b6 == bump(b5, fast_b_mapping(230, w[j], w[j_3], w[j_4]))
    IN b6

\* update_start with the warm-up counted per call: fed_len starts at 0.
update_start_restart(self) ==
    [a_bucket |-> self.a_bucket, slide_window |-> self.slide_window,
     checksum |-> self.checksum,
     j |-> self.data_len % RNG_SIZE, fed_len |-> 0]

\* update_start with the ring index counted per call: j starts at 0.
update_start_j0(self) ==
    [a_bucket |-> self.a_bucket, slide_window |-> self.slide_window,
     checksum |-> self.checksum,
     j |-> 0, fed_len |-> self.data_len]

\* The start of update(): the locals j and fed_len.
update_start(self) ==
    [a_bucket |-> self.a_bucket, slide_window |-> self.slide_window,
     checksum |-> self.checksum,
     j |-> self.data_len % RNG_SIZE, fed_len |-> self.data_len]

\* One iteration of `for b in data`.
update_byte(st, b) ==
    LET j == st.j
        w == [st.slide_window EXCEPT ![j] = b]
        j_1 == (j + RNG_SIZE - 1) % RNG_SIZE
        j_2 == (j + RNG_SIZE - 2) % RNG_SIZE
        j_3 == (j + RNG_SIZE - 3) % RNG_SIZE
        j_4 == (j + RNG_SIZE - 4) % RNG_SIZE
    IN IF st.fed_len >= 4
       THEN [a_bucket |-> bucket_step(st.a_bucket, w, j, j_1, j_2, j_3, j_4),
             slide_window |-> w,
             checksum |-> checksum_loop(st.checksum, 0, w[j], w[j_1]),
             j |-> (j + 1) % RNG_SIZE, fed_len |-> st.fed_len + 1]
       ELSE [a_bucket |-> st.a_bucket,
             slide_window |-> w,
             checksum |-> st.checksum,
             j |-> (j + 1) % RNG_SIZE, fed_len |-> st.fed_len + 1]

RECURSIVE update_loop(_, _, _)
update_loop(st, data, n) ==
    IF n > Len(data) THEN st
    ELSE update_loop(update_byte(st, data[n]), data, n + 1)

\* TlshxBuilder::update
update(self, data) ==
    LET st == update_loop(update_start(self), data, 1)
    IN [a_bucket |-> st.a_bucket, slide_window |-> st.slide_window,
        checksum |-> st.checksum, data_len |-> self.data_len + Len(data)]

\* The number of non-zero counters among the first CODE_SIZE * 5.
nonzero(buckets) ==
    Cardinality({i \in 0..(Min(CODE_SIZE * 5, BUCKETS) - 1) : buckets[i] > 0})

\* too_sparse rejecting only when fewer than half are non-zero.
too_sparse_lt(buckets) == nonzero(buckets) * 2 < 5 * CODE_SIZE

\* if nonzero * 2 <= 5 * CODE_SIZE { return None; }
too_sparse(buckets) == nonzero(buckets) * 2 <= 5 * CODE_SIZE

RECURSIVE code_byte_le(_, _, _, _, _)
\* code_byte with the thresholds compared by <= instead of <.
code_byte_le(buckets, i, q, j, h) ==
    IF j >= 5 THEN h
    ELSE LET k == buckets[5 * i + j]
             h2 == IF q[2] <= k THEN h + 2 * Pow(3, j)
                   ELSE IF q[1] <= k THEN h + 1 * Pow(3, j)
                   ELSE h
         IN code_byte_le(buckets, i, q, j + 1, h2)

RECURSIVE code_byte(_, _, _, _, _)
\* for (j, k) in slice.iter().enumerate(), from position j on, h accumulated
code_byte(buckets, i, q, j, h) ==
    IF j >= 5 THEN h
    ELSE LET k == buckets[5 * i + j]
             h2 == IF q[2] < k THEN h + 2 * Pow(3, j)
                   ELSE IF q[1] < k THEN h + 1 * Pow(3, j)
                   ELSE h
         IN code_byte(buckets, i, q, j + 1, h2)

\* (((q1 * 100) as f32 / q2 as f32) as u32 % 16) as u8; for the counter values
\* reached here the f32 quotient truncates to the integer quotient.
ratio(q) == ((q[1] * 100) \div q[2]) % 16

\* TlshxBuilder::build, an Option<Tlshx>. `self.data_len as u32` keeps the
\* value of every length below 2^32.
build(self) ==
    LET q == get_tertiles(self.a_bucket)
    IN IF self.data_len < MIN_DATA_LENGTH THEN None
       ELSE IF q[2] = 0 THEN None
       ELSE IF too_sparse(self.a_bucket) THEN None
       ELSE Some([lvalue |-> l_capturing(self.data_len),
                  q1_ratio |-> ratio(q),
                  checksum |-> self.checksum,
                  code |-> [i \in 0..(CODE_SIZE - 1) |->
                              code_byte(self.a_bucket, i, q, 0, 0)]])

\* build_self for a build() that starts the builder over.
build_self_reset(self) == new

\* The builder after build(&self): build() assigns to no field.
build_self(self) == self

(***************************************************************************)
(* Tlshx: hash, from_hash, diff                                            *)
(***************************************************************************)
\* ASCII: '0'..'9' = 48..57, 'A'..'F' = 65..70, 'a'..'f' = 97..102,
\* 'T' = 84, 'X' = 88
HexDigit(n) == IF n < 10 THEN 48 + n ELSE 55 + n

HexValue(c) ==
    IF c \in 48..57 THEN Some(c - 48)
    ELSE IF c \in 65..70 THEN Some(c - 55)
    ELSE IF c \in 97..102 THEN Some(c - 87)
    ELSE None

\* tlsh::to_hex: two upper-case hex characters of b written at the 0-based
\* index i of the buffer (a 1-based sequence here).
to_hex(buf, i, b) ==
    [buf EXCEPT ![i + 1] = HexDigit(b \div 16), ![i + 2] = HexDigit(b % 16)]

\* tlsh::from_hex: the byte of the two hex characters at the 0-based index i,
\* or None when one of them is no hex digit.
from_hex(s, i) ==
    LET hi == HexValue(s[i + 1])
        lo == HexValue(s[i + 2])
    IN IF hi = None \/ lo = None THEN None ELSE Some(hi[1] * 16 + lo[1])

RECURSIVE hash_checksum(_, _, _)
\* for k in &self.checksum { to_hex(.., swap_byte(*k)) }, from index k on
hash_checksum(buf, d, k) ==
    IF k >= TLSH_CHECKSUM_LEN THEN buf
    ELSE hash_checksum(to_hex(buf, 2 + 2 * k, swap_byte(d.checksum[k])), d, k + 1)

RECURSIVE hash_code_forward(_, _, _, _)
\* hash_code writing the code bytes in storage order.
hash_code_forward(buf, d, i, n) ==
    IF n >= CODE_SIZE THEN buf
    ELSE hash_code_forward(to_hex(buf, i, d.code[n]), d, i + 2, n + 1)

RECURSIVE hash_code(_, _, _, _)
\* for c in self.code.iter().rev() { to_hex(.., *c) }, n codes written so far
hash_code(buf, d, i, n) ==
    IF n >= CODE_SIZE THEN buf
    ELSE hash_code(to_hex(buf, i, d.code[CODE_SIZE - 1 - n]), d, i + 2, n + 1)

\* let qb = self.q1_ratio << 4, a u8
hash_qb(d) == (d.q1_ratio * 16) % 256

\* Tlshx::hash
hash(d) ==
    LET h0 == [n \in 1..TLSH_STRING_LEN_REQ |-> 0]
        h1 == [h0 EXCEPT ![1] = 84, ![2] = 88]
        h2 == hash_checksum(h1, d, 0)
        i2 == 2 + 2 * TLSH_CHECKSUM_LEN
        h3 == to_hex(h2, i2, swap_byte(d.lvalue))
        h4 == to_hex(h3, i2 + 2, hash_qb(d))
    IN hash_code(h4, d, i2 + 4, 0)

\* parse_q1_ratio keeping the low nibble.
parse_q1_ratio_low(qb) == qb % 16

\* let q1_ratio = qb >> 4
parse_q1_ratio(qb) == qb \div 16

\* code_rejected with the range check left out.
code_rejected_never(c) == FALSE

\* if *c > 242 { return None; }
code_rejected(c) == c > 242

\* Tlshx::from_hash
from_hash(s) ==
    IF Len(s) # TLSH_STRING_LEN_REQ \/ s[1] # 84 \/ s[2] # 88 THEN None
    ELSE LET ck == [k \in 0..(TLSH_CHECKSUM_LEN - 1) |-> from_hex(s, 2 + 2 * k)]
             i2 == 2 + 2 * TLSH_CHECKSUM_LEN
             lv == from_hex(s, i2)
             qb == from_hex(s, i2 + 2)
             \* cd[n] is the n-th code pair of the text, stored at code[CODE_SIZE-1-n]
             cd == [n \in 0..(CODE_SIZE - 1) |-> from_hex(s, i2 + 4 + 2 * n)]
         IN IF \E k \in DOMAIN ck : ck[k] = None THEN None
            ELSE IF lv = None \/ qb = None THEN None
            ELSE IF \E n \in DOMAIN cd : cd[n] = None \/ code_rejected(cd[n][1]) THEN None
            ELSE Some([lvalue |-> swap_byte(lv[1]),
                       q1_ratio |-> parse_q1_ratio(qb[1]),
                       checksum |-> [k \in 0..(TLSH_CHECKSUM_LEN - 1) |->
                                       swap_byte(ck[k][1])],
                       code |-> [c \in 0..(CODE_SIZE - 1) |->
                                   cd[CODE_SIZE - 1 - c][1]]])

\* <Tlshx as FromStr>::from_str: Ok(digest) or Err(ParseError), as an Option
from_str(s) == from_hash(s)

LENGTH_MULT == 12
QRATIO_MULT == 12
RANGE_LVALUE == 256
RANGE_QRATIO == 16

\* util::mod_diff: the circular difference of x and y on a ring of r values.
mod_diff(x, y, r) ==
    LET d == IF x > y THEN x - y ELSE y - x
    IN Min(d, r - d)

\* The ternary digit at position p of a code byte.
Trit(c, p) == (c \div Pow(3, p)) % 3

AbsDiff(x, y) == IF x > y THEN x - y ELSE y - x

\* util::hx_distance: the summed ternary-digit distance of two codes.
hx_distance(x, y) ==
    SumTo([i \in 0..(CODE_SIZE - 1) |->
             SumTo([p \in 0..4 |-> AbsDiff(Trit(x[i], p), Trit(y[i], p))], 5)],
          CODE_SIZE)

\* The length term of diff(): the value of `diff` before the quantile term.
length_term(a, b, flag) ==
    IF flag
    THEN LET ldiff == mod_diff(a.lvalue, b.lvalue, RANGE_LVALUE)
         IN IF ldiff = 0 THEN 0
            ELSE IF ldiff = 1 THEN 1
            ELSE ldiff * LENGTH_MULT
    ELSE 0

\* qratio_term weighting the whole difference.
qratio_term_full(a, b) ==
    LET q1diff == mod_diff(a.q1_ratio, b.q1_ratio, RANGE_QRATIO)
    IN IF q1diff <= 1 THEN q1diff ELSE q1diff * QRATIO_MULT

\* What diff() adds to `diff` for the quantile ratio.
qratio_term(a, b) ==
    LET q1diff == mod_diff(a.q1_ratio, b.q1_ratio, RANGE_QRATIO)
    IN IF q1diff <= 1 THEN q1diff ELSE (q1diff - 1) * QRATIO_MULT

\* What diff() adds for the checksums: 1 at the first differing byte.
checksum_term(a, b) ==
    IF \E k \in 0..(TLSH_CHECKSUM_LEN - 1) : a.checksum[k] # b.checksum[k]
    THEN 1 ELSE 0

\* Tlshx::diff, as the values `diff` takes after each of its four terms; the
\* last one is returned.
diff_trace(a, b, flag) ==
    LET d1 == length_term(a, b, flag)
        d2 == d1 + qratio_term(a, b)
        d3 == d2 + checksum_term(a, b)
        d4 == d3 + hx_distance(a.code, b.code)
    IN <<d1, d2, d3, d4>>

diff(a, b, flag) == diff_trace(a, b, flag)[4]

(***************************************************************************)
(* The builder as a state machine                                          *)
(***************************************************************************)
ByteOf(i) == <<0, 255, 97, 32>>[i + 1]
InputBytes == {ByteOf(i) : i \in 0..(NumBytes - 1)}
Chunks == UNION {[1..n -> InputBytes] : n \in 0..MaxChunk}

\* The builder object, as one value.
builder == [a_bucket |-> a_bucket, slide_window |-> slide_window,
            checksum |-> checksum, data_len |-> data_len]

NoDigest == [lvalue |-> 0, q1_ratio |-> 0,
             checksum |-> [i \in 0..(TLSH_CHECKSUM_LEN - 1) |-> 0],
             code |-> [i \in 0..(CODE_SIZE - 1) |-> 0]]

Init ==
    /\ a_bucket = new.a_bucket
    /\ slide_window = new.slide_window
    /\ checksum = new.checksum
    /\ data_len = new.data_len
    /\ fed = <<>>
    /\ op = "new"
    /\ result = None
    /\ nbuild = 0
    /\ pre = None
    /\ text = <<>>
    /\ edits = 0
    /\ parsed = None
    /\ lhs = NoDigest
    /\ rhs = NoDigest
    /\ len_diff = FALSE
    /\ acc = <<0, 0, 0, 0>>

Update(data) ==
    /\ data_len + Len(data) <= MaxLen
    /\ LET s == update(builder, data)
       IN /\ a_bucket' = s.a_bucket
          /\ slide_window' = s.slide_window
          /\ checksum' = s.checksum
          /\ data_len' = s.data_len
    /\ fed' = fed \o data
    /\ op' = "update"
    /\ result' = None
    /\ nbuild' = 0
    /\ pre' = None
    /\ UNCHANGED <<codecVars, diffVars>>

Build ==
    /\ nbuild < MaxBuilds
    /\ result' = build(builder)
    /\ LET s == build_self(builder)
       IN /\ a_bucket' = s.a_bucket
          /\ slide_window' = s.slide_window
          /\ checksum' = s.checksum
          /\ data_len' = s.data_len
    /\ op' = "build"
    /\ nbuild' = nbuild + 1
    /\ pre' = Some([op |-> op, builder |-> builder, result |-> result])
    /\ UNCHANGED fed
    /\ UNCHANGED <<codecVars, diffVars>>

Next ==
    \/ \E data \in Chunks : Update(data)
    \/ Build

Spec == Init /\ [][Next]_vars

(***************************************************************************)
(* Properties of the builder, checked under Spec                           *)
(***************************************************************************)
\* The builder a single update() call over the whole history leaves.
OneCall == update(new, fed)

\* C1: chunk-invariance of update(). The builder reached by any sequence of
\* update() calls equals the builder one update() call over the concatenated
\* input reaches; every split of the input into s1 ++ s2 (empty parts
\* included) reaches that same builder, hence the same build() outcome; and
\* update() with an empty slice changes nothing.
C1_ChunkInvariance ==
    LET one == OneCall
        built == build(one)
    IN /\ builder = one
       /\ \A k \in 0..Len(fed) :
            LET two == update(update(new, SubSeq(fed, 1, k)),
                              SubSeq(fed, k + 1, Len(fed)))
            IN two = one /\ build(two) = built
       /\ update(builder, <<>>) = builder

\* Bytes went in through several update() calls, past the warm-up, and the
\* histogram and checksum are populated.
C1_Witness ==
    /\ op = "update"
    /\ Len(fed) > MaxChunk
    /\ data_len > 4
    /\ \E i \in DOMAIN a_bucket : a_bucket[i] > 0
    /\ \E k \in DOMAIN checksum : checksum[k] > 0
    /\ builder = OneCall

\* C2: round trip. Parsing the text hash() writes for a digest build()
\* returned succeeds and gives back the digest, field by field.
C2_RoundTrip ==
    (op = "build" /\ result # None) =>
        LET d == result[1]
            back == from_str(hash(d))
        IN /\ back # None
           /\ back[1].lvalue = d.lvalue
           /\ back[1].q1_ratio = d.q1_ratio
           /\ back[1].checksum = d.checksum
           /\ back[1].code = d.code

C2_Witness ==
    /\ op = "build"
    /\ result # None
    /\ result[1].code[0] # result[1].code[1]
    /\ result[1].q1_ratio > 0
    /\ result[1].lvalue > 0
    /\ from_str(hash(result[1])) = result

\* The three rejection conditions of build(), read off the builder.
TooShort == data_len < MIN_DATA_LENGTH
Q2Zero == get_tertiles(a_bucket)[2] = 0
PopulatedTwice == 2 * Cardinality({i \in 0..(CODE_SIZE * 5 - 1) : a_bucket[i] # 0})

\* C4 as stated: build() returns no digest exactly when the input is too
\* short, or q2 is 0, or FEWER THAN HALF of the first CODE_SIZE * 5 buckets
\* are non-zero.
C4_AsStated ==
    op = "build" =>
        (result = None <=> (TooShort \/ Q2Zero \/ PopulatedTwice < CODE_SIZE * 5))

\* C4, amended: build() returns no digest exactly when the input is too
\* short, or q2 is 0, or AT MOST HALF of the first CODE_SIZE * 5 buckets are
\* non-zero; in every other reachable builder state it returns a digest.
C4_BuildRejection ==
    op = "build" =>
        (result = None <=> (TooShort \/ Q2Zero \/ PopulatedTwice <= CODE_SIZE * 5))

\* build() was called on a long enough input with q2 > 0 and exactly half of
\* the buckets populated, and returned no digest.
C4_Witness ==
    /\ op = "build"
    /\ ~TooShort
    /\ ~Q2Zero
    /\ PopulatedTwice = CODE_SIZE * 5
    /\ result = None

\* C6: build() is a pure read. A build() call leaves histogram, window,
\* checksum and length as they were; a build() right after a build() returns
\* what the first returned; and with build() calls interleaved the builder is
\* still the one the update() calls alone produce.
C6_BuildIsPureRead ==
    op = "build" =>
        /\ pre # None
        /\ builder = pre[1].builder
        /\ (pre[1].op = "build" => result = pre[1].result)
        /\ builder = OneCall

\* Two build() calls in a row on a builder that yields a digest.
C6_Witness ==
    /\ op = "build"
    /\ pre # None
    /\ pre[1].op = "build"
    /\ result # None
    /\ data_len > 4

\* The ternary digit of a counter c under the thresholds q1, q2.
Digit(c, q1, q2) == IF c > q2 THEN 2 ELSE IF q1 < c /\ c <= q2 THEN 1 ELSE 0

\* C7: code quantization. In every digest build() returns, code[i] is the sum
\* over p in 0..4 of Digit(histogram[5i + p]) * 3^p, which stays within
\* 0..242, so the u8 accumulator never overflows.
C7_CodeQuantization ==
    (op = "build" /\ result # None) =>
        LET q == get_tertiles(a_bucket)
        IN \A i \in 0..(CODE_SIZE - 1) :
             /\ result[1].code[i] =
                  SumTo([p \in 0..4 |->
                           Digit(a_bucket[5 * i + p], q[1], q[2]) * Pow(3, p)], 5)
             /\ result[1].code[i] \in 0..242

\* A digest whose histogram has counters in all three classes.
C7_Witness ==
    /\ op = "build"
    /\ result # None
    /\ LET q == get_tertiles(a_bucket)
       IN \A t \in 0..2 :
            \E n \in 0..(CODE_SIZE * 5 - 1) : Digit(a_bucket[n], q[1], q[2]) = t

\* C8: histogram accounting. The counters sum to 6 * max(0, data_len - 4);
\* they are all zero while data_len <= 4; and one more byte adds exactly six
\* increments once four bytes went before it, none otherwise, and lowers no
\* counter.
C8_HistogramAccounting ==
    /\ SumTo(a_bucket, BUCKETS) = 6 * Max(0, data_len - 4)
    /\ data_len <= 4 => \A i \in DOMAIN a_bucket : a_bucket[i] = 0
    /\ \A b \in InputBytes :
         LET nxt == update(builder, <<b>>)
         IN /\ \A i \in DOMAIN a_bucket : nxt.a_bucket[i] >= a_bucket[i]
            /\ SumTo(nxt.a_bucket, BUCKETS) =
                 SumTo(a_bucket, BUCKETS) + (IF data_len >= 4 THEN 6 ELSE 0)

C8_Witness ==
    /\ op = "update"
    /\ data_len = 6
    /\ SumTo(a_bucket, BUCKETS) = 12

\* C9: sliding window. For every k < min(5, data_len) the slot
\* (data_len - 1 - k) mod 5 holds the k-th most recent byte, and the slots
\* never written still hold 0.
C9_SlidingWindow ==
    /\ \A k \in 0..(Min(5, data_len) - 1) :
         slide_window[(data_len - 1 - k) % 5] = fed[Len(fed) - k]
    /\ \A i \in 0..4 : i >= data_len => slide_window[i] = 0

\* The window has wrapped around and holds differing bytes.
C9_Witness ==
    /\ op = "update"
    /\ data_len > 5
    /\ Len(fed) = data_len
    /\ \E i, k \in 0..4 : slide_window[i] # slide_window[k]
    /\ slide_window[(data_len - 1) % 5] = fed[Len(fed)]

(***************************************************************************)
(* The codec as a state machine: a digest is written with hash(), the text *)
(* is damaged on its way (characters replaced, dropped or added), and the  *)
(* receiver parses it.                                                     *)
(***************************************************************************)
MaxEdits == 1      \* number of changes made to a text

Arr2(x, y) == [i \in 0..1 |-> IF i = 0 THEN x ELSE y]

\* Digests written by hash(): values from_str() can return.
CodecDigests ==
    [lvalue : {9, 200}, q1_ratio : {0, 5, 15},
     checksum : {Arr2(0, 0), Arr2(9, 122)},
     code : {Arr2(0, 0), Arr2(5, 27), Arr2(242, 241)}]

\* '0', '3', 'F', 'f', 'G', 'X', ' '
EditChars == {48, 51, 70, 102, 71, 88, 32}

Hash(d) ==
    /\ op = "new"
    /\ text' = hash(d)
    /\ op' = "hash"
    /\ UNCHANGED <<edits, parsed, builderVars, diffVars>>

Replace(pos, ch) ==
    /\ op \in {"hash", "edit"}
    /\ edits < MaxEdits
    /\ pos \in 1..Len(text)
    /\ text' = [text EXCEPT ![pos] = ch]
    /\ edits' = edits + 1
    /\ op' = "edit"
    /\ UNCHANGED <<parsed, builderVars, diffVars>>

Truncate ==
    /\ op \in {"hash", "edit"}
    /\ edits < MaxEdits
    /\ Len(text) > 0
    /\ text' = SubSeq(text, 1, Len(text) - 1)
    /\ edits' = edits + 1
    /\ op' = "edit"
    /\ UNCHANGED <<parsed, builderVars, diffVars>>

Extend(ch) ==
    /\ op \in {"hash", "edit"}
    /\ edits < MaxEdits
    /\ text' = Append(text, ch)
    /\ edits' = edits + 1
    /\ op' = "edit"
    /\ UNCHANGED <<parsed, builderVars, diffVars>>

Parse ==
    /\ op \in {"new", "hash", "edit"}
    /\ parsed' = from_str(text)
    /\ op' = "parse"
    /\ UNCHANGED <<text, edits, builderVars, diffVars>>

CodecNext ==
    \/ \E d \in CodecDigests : Hash(d)
    \/ \E pos \in 1..(TLSH_STRING_LEN_REQ + MaxEdits), ch \in EditChars : Replace(pos, ch)
    \/ Truncate
    \/ \E ch \in EditChars : Extend(ch)
    \/ Parse

CodecSpec == Init /\ [][CodecNext]_vars

(***************************************************************************)
(* Properties of the codec, checked under CodecSpec                        *)
(***************************************************************************)
\* The number of hex pairs of a text, and the 0-based index of pair n.
HexPairs == (TLSH_STRING_LEN_REQ - 2) \div 2
PairAt(n) == 2 + 2 * n
\* The pairs from FirstCodePair on are code bytes.
FirstCodePair == TLSH_CHECKSUM_LEN + 2

WrongLength(t) == Len(t) # TLSH_STRING_LEN_REQ
WrongTag(t) == Len(t) < 2 \/ t[1] # 84 \/ t[2] # 88
BadHexPair(t) ==
    /\ ~WrongLength(t)
    /\ \E n \in 0..(HexPairs - 1) : from_hex(t, PairAt(n)) = None
CodeByteTooBig(t) ==
    /\ ~WrongLength(t)
    /\ \E n \in FirstCodePair..(HexPairs - 1) :
         from_hex(t, PairAt(n)) # None /\ from_hex(t, PairAt(n))[1] > 242

\* C3: parse rejection. from_str() returns a parse failure whenever the text
\* has the wrong length, or does not start with "TX", or has a hex pair that
\* does not decode, or has a code byte above 242.
C3_ParseRejection ==
    op = "parse" =>
        ((WrongLength(text) \/ WrongTag(text) \/ BadHexPair(text)
            \/ CodeByteTooBig(text))
         => parsed = None)

\* A text that is well-formed but for a code byte above 242 was rejected.
C3_Witness ==
    /\ op = "parse"
    /\ ~WrongLength(text)
    /\ ~WrongTag(text)
    /\ ~BadHexPair(text)
    /\ CodeByteTooBig(text)
    /\ parsed = None

\* The 1-based position of the low hex digit of the quantile-ratio pair.
QLow == 2 + 2 * TLSH_CHECKSUM_LEN + 2 + 2
HexChars == (48..57) \cup (65..70) \cup (97..102)

\* C10: parsing ignores the low hex digit of the quantile-ratio pair. Texts
\* of the required length that differ only in that digit are both rejected
\* or parse to equal digests; a parsed q1_ratio is in 0..15; hash() of a
\* parsed digest writes '0' there, so it gives the text back only when the
\* text had '0' there.
C10_LowDigitIgnored ==
    (op = "parse" /\ Len(text) = TLSH_STRING_LEN_REQ) =>
        /\ text[QLow] \in HexChars =>
             \A c \in HexChars : from_str([text EXCEPT ![QLow] = c]) = parsed
        /\ parsed # None =>
             /\ parsed[1].q1_ratio \in 0..15
             /\ hash(parsed[1])[QLow] = 48
             /\ (hash(parsed[1]) = text => text[QLow] = 48)

\* A text with a low digit other than '0' was accepted, and hash() of the
\* digest differs from it.
C10_Witness ==
    /\ op = "parse"
    /\ Len(text) = TLSH_STRING_LEN_REQ
    /\ parsed # None
    /\ text[QLow] \in HexChars \ {48}
    /\ parsed[1].q1_ratio > 0
    /\ hash(parsed[1]) # text
    /\ from_str([text EXCEPT ![QLow] = 48]) = parsed

(***************************************************************************)
(* diff() applied to pairs of digests                                      *)
(***************************************************************************)
DiffDigests ==
    [lvalue : {0, 1, 254}, q1_ratio : 0..15,
     checksum : {Arr2(0, 0), Arr2(0, 7)},
     code : {Arr2(0, 0), Arr2(242, 14)}]

Diff(a, b, flag) ==
    /\ lhs' = a
    /\ rhs' = b
    /\ len_diff' = flag
    /\ acc' = diff_trace(a, b, flag)
    /\ op' = "diff"
    /\ UNCHANGED <<builderVars, codecVars>>

\* One comparison per pair of digests.
DiffNext ==
    /\ op = "new"
    /\ \E a \in DiffDigests, b \in DiffDigests, flag \in BOOLEAN : Diff(a, b, flag)

DiffSpec == Init /\ [][DiffNext]_vars

(***************************************************************************)
(* Properties of diff(), checked under DiffSpec                            *)
(***************************************************************************)
\* The circular difference of the two q1_ratio values on a ring of 16.
QDiff ==
    LET d == AbsDiff(lhs.q1_ratio, rhs.q1_ratio)
    IN IF d <= 16 - d THEN d ELSE 16 - d

\* What diff() added for the quantile ratio.
QAdded == acc[2] - acc[1]

\* C5 as stated: diff() adds d for the quantile ratio when d <= 1 and d * 12
\* when d > 1.
C5_AsStated ==
    op = "diff" => QAdded = (IF QDiff <= 1 THEN QDiff ELSE QDiff * 12)

\* C5, amended: diff() adds d for the quantile ratio when d <= 1 and
\* (d - 1) * 12 when d > 1, whatever the len_diff flag.
C5_QuantileTerm ==
    op = "diff" => QAdded = (IF QDiff <= 1 THEN QDiff ELSE (QDiff - 1) * 12)

\* diff() with the length included compared ratios 3 apart across the wrap.
C5_Witness ==
    /\ op = "diff"
    /\ len_diff
    /\ lhs.q1_ratio = 15
    /\ rhs.q1_ratio = 2
    /\ lhs.lvalue # rhs.lvalue
    /\ QAdded = 24

====
